---- MODULE Spec2Model ----
(***************************************************************************)
(* Model of jupiter-swap-api-client (src/lib.rs): the JupiterSwapApiClient *)
(* struct, its constructor, its three asynchronous operations and the      *)
(* shared response handling (check_is_success and                          *)
(* check_status_code_and_deserialize).                                     *)
(*                                                                         *)
(* Every caller is a call site that shares the one client.  A call         *)
(* suspends at the points where the code awaits: send().await,             *)
(* text().await and json().await.  The transport and the server are the    *)
(* environment: they choose whether the send fails, the status of the      *)
(* response, its body and whether the body can be read.                    *)
(***************************************************************************)
EXTENDS Integers, Sequences, FiniteSets

VARIABLES
    new_call,       \* the call of JupiterSwapApiClient::new, once made
    client,         \* the JupiterSwapApiClient, once constructed
    calls,          \* per caller: the frame of its call in progress
    swap_requests,  \* per caller: the SwapRequest it owns and lends (&SwapRequest)
    started         \* number of operations called so far

vars == <<new_call, client, calls, swap_requests, started>>

(***************************************************************************)
(* Bounds and input sets                                                   *)
(***************************************************************************)
MaxCalls == 2

Callers == {1, 2}

BasePaths == {"https://quote-api.jup.ag/v6", "http://localhost:8080/"}

Statuses == {199, 200, 299, 300, 400}

ArgKeys == {"k1", "k2"}
ArgVals == {"v1"}

Amounts == {"100"}

SwapRequestValues == {[userPublicKey |-> "user1"]}

BodyText == "insufficient liquidity"
BodyPartialQuote == "{\"outAmount\":\"1000\"}"
BodyQuote == "{\"inAmount\":\"5\",\"outAmount\":\"1000\"}"
BodySwap == "{\"swapTransaction\":\"tx\"}"
BodySwapInstructions == "{\"swapInstruction\":\"ix\"}"

Bodies == {BodyText, BodyPartialQuote, BodyQuote, BodySwap, BodySwapInstructions}

(***************************************************************************)
(* Option and Result                                                       *)
(***************************************************************************)
None == [tag |-> "None"]
Some(v) == [tag |-> "Some", val |-> v]
Ok(v) == [tag |-> "Ok", val |-> v]
Err(e) == [tag |-> "Err", err |-> e]

\* ClientError, lines 24-33
RequestFailed(status, body) == [kind |-> "RequestFailed", status |-> status, body |-> body]
DeserializationError(cause) == [kind |-> "DeserializationError", cause |-> cause]

\* HashMap<String, String>: a function from some of the keys to values
ArgMaps == UNION {[D -> ArgVals] : D \in SUBSET ArgKeys}
OptionArgMaps == {None} \cup {Some(m) : m \in ArgMaps}

\* the orders in which a HashMap with key set S can be iterated
Orders(S) == {o \in [1..Cardinality(S) -> S] : \A i, j \in 1..Cardinality(S) : o[i] = o[j] => i = j}

OrdersOf(opt) == IF opt.tag = "Some" THEN Orders(DOMAIN opt.val) ELSE {<<>>}

QuoteRequests == {[amount |-> a, quote_args |-> q] : a \in Amounts, q \in OptionArgMaps}

(***************************************************************************)
(* Construction                                                            *)
(***************************************************************************)
\* a slip in the format string of the third path
JupiterSwapApiClient_underscore(base_path) ==
    [base_path |-> base_path,
     quote_path |-> base_path \o "/quote",
     swap_path |-> base_path \o "/swap",
     swap_instructions_path |-> base_path \o "/swap_instructions"]

\* the struct built by new, lines 56-58 and 64-70
JupiterSwapApiClient(base_path) ==
    [base_path |-> base_path,
     quote_path |-> base_path \o "/quote",
     swap_path |-> base_path \o "/swap",
     swap_instructions_path |-> base_path \o "/swap-instructions"]

\* JupiterSwapApiClient::new: Client::builder()...build()? may fail
new(base_path, build_ok) ==
    /\ new_call = None
    /\ new_call' = Some([base_path |-> base_path,
                         transport |-> IF build_ok THEN "Ok" ELSE "Err",
                         result |-> IF build_ok THEN "Ok" ELSE "Err"])
    /\ client' = IF build_ok THEN Some(JupiterSwapApiClient(base_path)) ELSE None
    /\ UNCHANGED <<calls, swap_requests, started>>

(***************************************************************************)
(* Call frames                                                             *)
(***************************************************************************)
IdleCall ==
    [pc |-> "idle", op |-> "none", arg |-> None, sent |-> 0, request |-> None,
     response |-> None, outcome |-> None, status_checks |-> 0, text_reads |-> 0,
     json_decodes |-> 0, conversions |-> 0]

Init ==
    /\ new_call = None
    /\ client = None
    /\ calls = [c \in Callers |-> IdleCall]
    /\ swap_requests = [c \in Callers |-> None]
    /\ started = 0

(***************************************************************************)
(* Requests: what the operations hand to the transport                     *)
(***************************************************************************)
\* clone() in the place of take(): the mapping stays in the request
take_cloning(opt) == [taken |-> opt, left |-> opt]

\* Option::take, line 75: the value moves out, None stays behind
take(opt) == [taken |-> opt, left |-> None]

\* InternalQuoteRequest::from(QuoteRequest): the wire form of what the
\* request still holds
InternalQuoteRequest_from(quote_request) ==
    [amount |-> quote_request.amount, quote_args |-> quote_request.quote_args]

\* serde_urlencoded of Option<HashMap<String, String>>: None gives no pair,
\* a map gives one pair per entry in the map's iteration order
SerializeArgs(opt, ord) ==
    IF opt.tag = "Some" THEN [i \in 1..Len(ord) |-> <<ord[i], opt.val[ord[i]]>>] ELSE <<>>

\* serde_urlencoded of the InternalQuoteRequest: its own fields, then
\* whatever mapping it still carries
SerializeInternal(internal, ord) ==
    <<<<"amount", internal.amount>>>> \o SerializeArgs(internal.quote_args, ord)

\* serde_json of the SwapRequest
ToJson(swap_request) == "{\"userPublicKey\":\"" \o swap_request.userPublicKey \o "\"}"

\* reqwest::RequestBuilder
Get(url) == [method |-> "GET", url |-> url, query |-> <<>>, body |-> None]
Post(url) == [method |-> "POST", url |-> url, query |-> <<>>, body |-> None]
Query(builder, pairs) == [builder EXCEPT !.query = @ \o pairs]
Json(builder, text) == [builder EXCEPT !.body = Some(text)]

CanCall(c) ==
    /\ client.tag = "Some"
    /\ calls[c].pc = "idle"
    /\ started < MaxCalls

\* the frame of a call suspended in send().await
Sending(op, arg, request) ==
    [IdleCall EXCEPT !.pc = "send", !.op = op, !.arg = arg,
                     !.request = Some(request), !.sent = 1]

\* quote keeping the url it last used in the client
quote_caching_url(c, quote_request, ord) ==
    /\ CanCall(c)
    /\ LET url == client.val.quote_path
           t == take(quote_request.quote_args)
           extra_args == t.taken
           moved == [quote_request EXCEPT !.quote_args = t.left]
           internal_quote_request == InternalQuoteRequest_from(moved)
           request == Query(Query(Get(url),
                                  SerializeInternal(internal_quote_request, ord)),
                            SerializeArgs(extra_args, ord))
       IN  /\ calls' = [calls EXCEPT ![c] = Sending("quote", quote_request, request)]
           /\ client' = Some([client.val EXCEPT !.base_path = url])
    /\ started' = started + 1
    /\ UNCHANGED <<new_call, swap_requests>>

\* JupiterSwapApiClient::quote up to send().await, lines 73-82
quote(c, quote_request, ord) ==
    /\ CanCall(c)
    /\ LET url == client.val.quote_path
           t == take(quote_request.quote_args)
           extra_args == t.taken
           moved == [quote_request EXCEPT !.quote_args = t.left]
           internal_quote_request == InternalQuoteRequest_from(moved)
           request == Query(Query(Get(url),
                                  SerializeInternal(internal_quote_request, ord)),
                            SerializeArgs(extra_args, ord))
       IN  calls' = [calls EXCEPT ![c] = Sending("quote", quote_request, request)]
    /\ started' = started + 1
    /\ UNCHANGED <<new_call, client, swap_requests>>

\* JupiterSwapApiClient::swap up to send().await, lines 86-96
swap(c, swap_request, extra_args, ord) ==
    /\ CanCall(c)
    /\ LET request == Json(Query(Post(client.val.swap_path),
                                 SerializeArgs(extra_args, ord)),
                           ToJson(swap_request))
       IN  calls' = [calls EXCEPT ![c] =
                Sending("swap", [swap_request |-> swap_request, extra_args |-> extra_args],
                        request)]
    /\ swap_requests' = [swap_requests EXCEPT ![c] = Some(swap_request)]
    /\ started' = started + 1
    /\ UNCHANGED <<new_call, client>>

\* swap_instructions posting to the path of swap
swap_instructions_to_swap_path(c, swap_request) ==
    /\ CanCall(c)
    /\ LET request == Json(Post(client.val.swap_path), ToJson(swap_request))
       IN  calls' = [calls EXCEPT ![c] =
                Sending("swap_instructions", [swap_request |-> swap_request], request)]
    /\ swap_requests' = [swap_requests EXCEPT ![c] = Some(swap_request)]
    /\ started' = started + 1
    /\ UNCHANGED <<new_call, client>>

\* JupiterSwapApiClient::swap_instructions up to send().await, lines 100-108
swap_instructions(c, swap_request) ==
    /\ CanCall(c)
    /\ LET request == Json(Post(client.val.swap_instructions_path), ToJson(swap_request))
       IN  calls' = [calls EXCEPT ![c] =
                Sending("swap_instructions", [swap_request |-> swap_request], request)]
    /\ swap_requests' = [swap_requests EXCEPT ![c] = Some(swap_request)]
    /\ started' = started + 1
    /\ UNCHANGED <<new_call, client>>

(***************************************************************************)
(* Responses                                                               *)
(***************************************************************************)
\* an off-by-one at the upper end of the success range
is_success_through_300(status) == 200 <= status /\ status <= 300

\* StatusCode::is_success, line 36
is_success(status) == 200 <= status /\ status < 300

\* Result::unwrap_or_default on the text of the body, line 38
unwrap_or_default(text_result) == IF text_result.tag = "Ok" THEN text_result.val ELSE ""

\* the type each operation decodes, lines 73, 90, 109
ResponseType(op) ==
    CASE op = "quote" -> "QuoteResponse"
      [] op = "swap" -> "SwapResponse"
      [] op = "swap_instructions" -> "SwapInstructionsResponseInternal"

\* the mandatory fields of the response types
Required(type) ==
    CASE type = "QuoteResponse" -> {"inAmount", "outAmount"}
      [] type = "SwapResponse" -> {"swapTransaction"}
      [] type = "SwapInstructionsResponseInternal" -> {"swapInstruction"}

\* serde_json on the text of a body: the object it denotes, if it is JSON
ParseJson(text) ==
    CASE text = BodyPartialQuote -> Ok([f \in {"outAmount"} |-> "1000"])
      [] text = BodyQuote ->
            Ok([f \in {"inAmount", "outAmount"} |-> IF f = "inAmount" THEN "5" ELSE "1000"])
      [] text = BodySwap -> Ok([f \in {"swapTransaction"} |-> "tx"])
      [] text = BodySwapInstructions -> Ok([f \in {"swapInstruction"} |-> "ix"])
      [] OTHER -> Err("decode")

\* Deserialize for the response types: every mandatory field must be there,
\* fields the type does not have are ignored
FromJson(type, object) ==
    IF Required(type) \subseteq DOMAIN object
    THEN Ok([type |-> type, fields |-> [f \in Required(type) |-> object[f]]])
    ELSE Err("decode")

\* Response::json::<T>(), lines 48-50: read the body, then decode it
json(type, body_result) ==
    IF body_result.tag = "Err" THEN Err("body")
    ELSE LET parsed == ParseJson(body_result.val)
         IN  IF parsed.tag = "Err" THEN parsed ELSE FromJson(type, parsed.val)

\* From<SwapInstructionsResponseInternal> for SwapInstructionsResponse
into(internal) ==
    [type |-> "SwapInstructionsResponse",
     swap_instruction |-> internal.fields["swapInstruction"]]

\* the decoded internal value handed out without conversion
map_into_unconverted(result) == [result |-> result, conversions |-> 0]

\* .map(Into::into), line 111
map_into(result) ==
    IF result.tag = "Ok"
    THEN [result |-> Ok(into(result.val)), conversions |-> 1]
    ELSE [result |-> result, conversions |-> 0]

\* what the operation returns from the result of the response handling:
\* swap_instructions converts (lines 109-111), the others return it (83, 97)
Returned(op, result) ==
    IF op = "swap_instructions" THEN map_into(result)
    ELSE [result |-> result, conversions |-> 0]

\* what reading the body of a response gives: a failure or its text
BodyResults == {Err("body")} \cup {Ok(b) : b \in Bodies}

\* the same for the responses whose status is not a success
ErrorBodyResults == {Err("body"), Ok(BodyText), Ok(BodyQuote)}

\* a failed send reported as a failed request
send_fails_as_request_failed(c) ==
    /\ calls[c].pc = "send"
    /\ calls' = [calls EXCEPT ![c].pc = "done",
                              ![c].outcome = Some(Err(RequestFailed(0, "")))]
    /\ UNCHANGED <<new_call, client, swap_requests, started>>

\* a failed send tried once more before it is reported
send_fails_retrying(c) ==
    /\ calls[c].pc = "send"
    /\ calls' = IF calls[c].sent < 2
                THEN [calls EXCEPT ![c].sent = @ + 1]
                ELSE [calls EXCEPT ![c].pc = "done",
                                   ![c].outcome = Some(Err(DeserializationError("send")))]
    /\ UNCHANGED <<new_call, client, swap_requests, started>>

\* send().await? fails, lines 82, 96, 108: the ? converts the reqwest::Error
\* (#[from], line 32) and returns
send_fails(c) ==
    /\ calls[c].pc = "send"
    /\ calls' = [calls EXCEPT ![c].pc = "done",
                              ![c].outcome = Some(Err(DeserializationError("send")))]
    /\ UNCHANGED <<new_call, client, swap_requests, started>>

\* send().await? yields a response; check_is_success tests its status
\* (line 36) and awaits text() (line 38) or returns it to json() (line 49)
receive(c, status) ==
    /\ calls[c].pc = "send"
    /\ calls' = [calls EXCEPT ![c].pc = IF is_success(status) THEN "json" ELSE "text",
                              ![c].response = Some([status |-> status, body |-> None]),
                              ![c].status_checks = @ + 1]
    /\ UNCHANGED <<new_call, client, swap_requests, started>>

\* text().await? in the place of unwrap_or_default: the read failure
\* leaves as a DeserializationError
check_is_success_propagating(c, text_result) ==
    /\ calls[c].pc = "text"
    /\ LET status == calls[c].response.val.status
           result == IF text_result.tag = "Ok"
                     THEN Err(RequestFailed(status, text_result.val))
                     ELSE Err(DeserializationError(text_result.err))
           r == Returned(calls[c].op, result)
       IN  calls' = [calls EXCEPT ![c].pc = "done",
                                  ![c].response = Some([status |-> status,
                                                        body |-> Some(text_result)]),
                                  ![c].text_reads = @ + 1,
                                  ![c].outcome = Some(r.result),
                                  ![c].conversions = @ + r.conversions]
    /\ UNCHANGED <<new_call, client, swap_requests, started>>

\* check_is_success after text().await, lines 38-39, and the ? of line 47
check_is_success(c, text_result) ==
    /\ calls[c].pc = "text"
    /\ LET status == calls[c].response.val.status
           body == unwrap_or_default(text_result)
           r == Returned(calls[c].op, Err(RequestFailed(status, body)))
       IN  calls' = [calls EXCEPT ![c].pc = "done",
                                  ![c].response = Some([status |-> status,
                                                        body |-> Some(text_result)]),
                                  ![c].text_reads = @ + 1,
                                  ![c].outcome = Some(r.result),
                                  ![c].conversions = @ + r.conversions]
    /\ UNCHANGED <<new_call, client, swap_requests, started>>

\* unwrap_or_default on the decoded value: a body that does not decode
\* gives the default value of the type
check_status_code_and_deserialize_defaulting(c, body_result) ==
    /\ calls[c].pc = "json"
    /\ LET type == ResponseType(calls[c].op)
           decoded == json(type, body_result)
           result == IF decoded.tag = "Ok" THEN decoded
                     ELSE Ok([type |-> type, fields |-> [f \in Required(type) |-> ""]])
           r == Returned(calls[c].op, result)
       IN  calls' = [calls EXCEPT ![c].pc = "done",
                                  ![c].response = Some([status |-> calls[c].response.val.status,
                                                        body |-> Some(body_result)]),
                                  ![c].json_decodes = @ + 1,
                                  ![c].outcome = Some(r.result),
                                  ![c].conversions = @ + r.conversions]
    /\ UNCHANGED <<new_call, client, swap_requests, started>>

\* check_status_code_and_deserialize after json().await, lines 48-51
check_status_code_and_deserialize(c, body_result) ==
    /\ calls[c].pc = "json"
    /\ LET decoded == json(ResponseType(calls[c].op), body_result)
           result == IF decoded.tag = "Ok" THEN decoded
                     ELSE Err(DeserializationError(decoded.err))
           r == Returned(calls[c].op, result)
       IN  calls' = [calls EXCEPT ![c].pc = "done",
                                  ![c].response = Some([status |-> calls[c].response.val.status,
                                                        body |-> Some(body_result)]),
                                  ![c].json_decodes = @ + 1,
                                  ![c].outcome = Some(r.result),
                                  ![c].conversions = @ + r.conversions]
    /\ UNCHANGED <<new_call, client, swap_requests, started>>

\* the caller takes the result; its call site is free for the next call
return(c) ==
    /\ calls[c].pc = "done"
    /\ calls' = [calls EXCEPT ![c] = IdleCall]
    /\ swap_requests' = [swap_requests EXCEPT ![c] = None]
    /\ UNCHANGED <<new_call, client, started>>

Next ==
    \/ \E b \in BasePaths, ok \in BOOLEAN : new(b, ok)
    \/ \E c \in Callers, q \in QuoteRequests :
          \E ord \in OrdersOf(q.quote_args) : quote(c, q, ord)
    \/ \E c \in Callers, s \in SwapRequestValues, e \in OptionArgMaps :
          \E ord \in OrdersOf(e) : swap(c, s, e, ord)
    \/ \E c \in Callers, s \in SwapRequestValues : swap_instructions(c, s)
    \/ \E c \in Callers : send_fails(c)
    \/ \E c \in Callers, status \in Statuses : receive(c, status)
    \/ \E c \in Callers, t \in ErrorBodyResults : check_is_success(c, t)
    \/ \E c \in Callers, b \in BodyResults : check_status_code_and_deserialize(c, b)
    \/ \E c \in Callers : return(c)

Spec == Init /\ [][Next]_vars

(***************************************************************************)
(* Properties                                                              *)
(***************************************************************************)
Done(c) == calls[c].pc = "done"
Active(c) == calls[c].pc # "idle"
Received(c) == calls[c].response.tag = "Some"
StatusOf(c) == calls[c].response.val.status
\* the result of reading the body of the response of a finished call
BodyOf(c) == calls[c].response.val.body.val
OutcomeOf(c) == calls[c].outcome.val
InSuccessRange(status) == status \in 200..299

\* C1: a response whose status is in [200, 300) has its body decoded as
\* JSON; for every other status no JSON decoding is attempted and the call
\* returns RequestFailed with the status of the response and the text that
\* reading the body gave.
C1_StatusDecidesDecoding ==
    \A c \in Callers :
        /\ (calls[c].pc = "json" \/ calls[c].json_decodes > 0) =>
                Received(c) /\ InSuccessRange(StatusOf(c))
        /\ calls[c].pc = "text" => Received(c) /\ ~InSuccessRange(StatusOf(c))
        /\ (Done(c) /\ Received(c)) =>
                IF InSuccessRange(StatusOf(c))
                THEN calls[c].json_decodes = 1 /\ calls[c].text_reads = 0
                ELSE /\ calls[c].json_decodes = 0
                     /\ OutcomeOf(c).tag = "Err"
                     /\ OutcomeOf(c).err.kind = "RequestFailed"
                     /\ OutcomeOf(c).err.status = StatusOf(c)
                     /\ BodyOf(c).tag = "Ok" => OutcomeOf(c).err.body = BodyOf(c).val

C1_Witness ==
    \E c \in Callers :
        /\ Done(c) /\ calls[c].op = "quote" /\ Received(c)
        /\ StatusOf(c) = 400 /\ BodyOf(c) = Ok(BodyText)
        /\ OutcomeOf(c) = Err(RequestFailed(400, "insufficient liquidity"))
        /\ calls[c].json_decodes = 0

\* C2: when the status is not 2xx and reading the body fails, the call
\* returns RequestFailed with the status of the response and the empty
\* string as body; the read failure is not propagated.
C2_UnreadableBodyIsEmpty ==
    \A c \in Callers :
        (Done(c) /\ Received(c) /\ ~InSuccessRange(StatusOf(c)) /\ BodyOf(c).tag = "Err") =>
            OutcomeOf(c) = Err(RequestFailed(StatusOf(c), ""))

C2_Witness ==
    \E c \in Callers :
        /\ Done(c) /\ Received(c) /\ StatusOf(c) = 300 /\ BodyOf(c) = Err("body")
        /\ calls[c].text_reads = 1
        /\ OutcomeOf(c) = Err(RequestFailed(300, ""))

\* the value the body of a finished call decodes to, for the type of its
\* operation
DecodedOf(c) == json(ResponseType(calls[c].op), BodyOf(c))

\* C3: when the status is 2xx and the body cannot be decoded into the
\* expected type, the call returns a DeserializationError wrapping the
\* cause; a success value is returned only when decoding succeeded, and it
\* is the decoded value, never a default or partial one.
C3_DecodeFailureIsError ==
    \A c \in Callers :
        /\ (Done(c) /\ Received(c) /\ InSuccessRange(StatusOf(c)) /\ DecodedOf(c).tag = "Err") =>
                OutcomeOf(c) = Err(DeserializationError(DecodedOf(c).err))
        /\ (Done(c) /\ OutcomeOf(c).tag = "Ok") =>
                /\ Received(c) /\ InSuccessRange(StatusOf(c))
                /\ DecodedOf(c).tag = "Ok"
                /\ Required(ResponseType(calls[c].op)) \subseteq DOMAIN ParseJson(BodyOf(c).val).val
                /\ calls[c].op # "swap_instructions" => OutcomeOf(c).val = DecodedOf(c).val

C3_Witness ==
    \E c \in Callers :
        /\ Done(c) /\ calls[c].op = "quote" /\ Received(c)
        /\ StatusOf(c) = 200 /\ BodyOf(c) = Ok(BodyPartialQuote)
        /\ OutcomeOf(c) = Err(DeserializationError("decode"))

\* C4: a finished call has exactly one of three outcomes: a success value,
\* RequestFailed or DeserializationError.  RequestFailed comes only from a
\* received response whose status is not 2xx.  A failed send is reported as
\* DeserializationError, with no status check and no body read.
C4_ThreeOutcomes ==
    \A c \in Callers :
        Done(c) =>
            /\ calls[c].outcome.tag = "Some"
            /\ \/ OutcomeOf(c).tag = "Ok" /\ DOMAIN OutcomeOf(c) = {"tag", "val"}
               \/ /\ OutcomeOf(c).tag = "Err"
                  /\ OutcomeOf(c).err.kind \in {"RequestFailed", "DeserializationError"}
            /\ (OutcomeOf(c).tag = "Err" /\ OutcomeOf(c).err.kind = "RequestFailed") =>
                    Received(c) /\ ~InSuccessRange(StatusOf(c))
            /\ ~Received(c) =>
                    /\ OutcomeOf(c) = Err(DeserializationError("send"))
                    /\ calls[c].status_checks = 0
                    /\ calls[c].text_reads = 0
                    /\ calls[c].json_decodes = 0

C4_Witness ==
    \E c \in Callers :
        /\ Done(c) /\ ~Received(c) /\ calls[c].sent = 1
        /\ OutcomeOf(c) = Err(DeserializationError("send"))

\* C5: a call sends at most one HTTP request; a call that failed (send
\* failure, non-2xx status or decode failure) has returned its error
\* having sent exactly the one request.
C5_NoRetry ==
    \A c \in Callers :
        /\ calls[c].sent <= 1
        /\ Active(c) => calls[c].sent = 1
        /\ (Done(c) /\ OutcomeOf(c).tag = "Err") => calls[c].sent = 1

C5_Witness ==
    \E c, d \in Callers :
        /\ c # d /\ Done(c) /\ Done(d)
        /\ OutcomeOf(c) = Err(DeserializationError("send")) /\ calls[c].sent = 1
        /\ OutcomeOf(d).tag = "Err" /\ OutcomeOf(d).err.kind = "RequestFailed"
        /\ calls[d].sent = 1

Constructed == new_call.tag = "Some"

\* C6 as stated: construction always succeeds and derives the three paths
\* from the base path it is given.
C6_AlwaysSucceeds ==
    Constructed =>
        /\ new_call.val.result = "Ok"
        /\ client.tag = "Some"
        /\ client.val.base_path = new_call.val.base_path
        /\ client.val.quote_path = new_call.val.base_path \o "/quote"
        /\ client.val.swap_path = new_call.val.base_path \o "/swap"
        /\ client.val.swap_instructions_path = new_call.val.base_path \o "/swap-instructions"

\* C6, amended: construction succeeds exactly when the construction of the
\* transport succeeds, whatever the base path; it then stores the base path
\* it was given and derives exactly the three paths base + "/quote",
\* base + "/swap" and base + "/swap-instructions"; when the transport
\* cannot be built, construction reports the error and there is no client.
C6_SucceedsWithTransport ==
    /\ ~Constructed => client = None
    /\ Constructed =>
        /\ new_call.val.result = new_call.val.transport
        /\ new_call.val.result = "Err" => client = None
        /\ new_call.val.result = "Ok" =>
            /\ client.tag = "Some"
            /\ DOMAIN client.val =
                  {"base_path", "quote_path", "swap_path", "swap_instructions_path"}
            /\ client.val.base_path = new_call.val.base_path
            /\ client.val.quote_path = new_call.val.base_path \o "/quote"
            /\ client.val.swap_path = new_call.val.base_path \o "/swap"
            /\ client.val.swap_instructions_path =
                  new_call.val.base_path \o "/swap-instructions"

C6_Witness ==
    /\ Constructed
    /\ new_call.val.base_path = "https://quote-api.jup.ag/v6"
    /\ new_call.val.result = "Ok"
    /\ client.tag = "Some"
    /\ client.val.swap_instructions_path = "https://quote-api.jup.ag/v6/swap-instructions"

\* the pairs of an optional mapping, in one of the orders the map can be
\* iterated in
IsSerializedArgs(pairs, opt) == \E ord \in OrdersOf(opt) : pairs = SerializeArgs(opt, ord)

\* how many times a pair occurs in a query
Occurrences(query, pair) == Cardinality({i \in 1..Len(query) : query[i] = pair})

\* C7: the query of a quote call is the fields of the internal request
\* followed by the extra parameters, so that every extra parameter is in
\* the query exactly once and the serialized internal request holds none;
\* without a mapping the query is the internal fields alone.
C7_ExtraArgsOnce ==
    \A c \in Callers :
        (Active(c) /\ calls[c].op = "quote") =>
            LET query == calls[c].request.val.query
                args == calls[c].arg.quote_args
            IN  /\ Len(query) >= 1
                /\ query[1] = <<"amount", calls[c].arg.amount>>
                /\ IsSerializedArgs(SubSeq(query, 2, Len(query)), args)
                /\ args.tag = "None" => Len(query) = 1
                /\ args.tag = "Some" =>
                      /\ Len(query) = 1 + Cardinality(DOMAIN args.val)
                      /\ \A k \in DOMAIN args.val :
                            Occurrences(query, <<k, args.val[k]>>) = 1

C7_Witness ==
    \E c \in Callers :
        /\ Active(c) /\ calls[c].op = "quote"
        /\ calls[c].arg.quote_args.tag = "Some"
        /\ DOMAIN calls[c].arg.quote_args.val = {"k1", "k2"}
        /\ calls[c].request.val.query = <<<<"amount", "100">>, <<"k2", "v1">>, <<"k1", "v1">>>>

\* C8: quote sends GET to the quote path without a body; swap sends POST
\* to the swap path with the swap request as JSON body and the extra
\* parameters, when there are any, as query; swap_instructions sends POST
\* to the swap-instructions path with the swap request as JSON body and no
\* query parameter at all.
C8_WireTable ==
    \A c \in Callers :
        Active(c) =>
            LET request == calls[c].request.val
                base == new_call.val.base_path
            IN  /\ calls[c].op = "quote" =>
                      /\ request.method = "GET"
                      /\ request.url = base \o "/quote"
                      /\ request.body = None
                /\ calls[c].op = "swap" =>
                      /\ request.method = "POST"
                      /\ request.url = base \o "/swap"
                      /\ request.body = Some(ToJson(calls[c].arg.swap_request))
                      /\ IsSerializedArgs(request.query, calls[c].arg.extra_args)
                /\ calls[c].op = "swap_instructions" =>
                      /\ request.method = "POST"
                      /\ request.url = base \o "/swap-instructions"
                      /\ request.body = Some(ToJson(calls[c].arg.swap_request))
                      /\ request.query = <<>>

C8_Witness ==
    \E c, d \in Callers :
        /\ Active(c) /\ calls[c].op = "swap"
        /\ calls[c].request.val.url = "https://quote-api.jup.ag/v6/swap"
        /\ calls[c].request.val.query = <<<<"k1", "v1">>>>
        /\ calls[c].request.val.body = Some("{\"userPublicKey\":\"user1\"}")
        /\ Active(d) /\ calls[d].op = "swap_instructions"
        /\ calls[d].request.val.url = "https://quote-api.jup.ag/v6/swap-instructions"
        /\ calls[d].request.val.query = <<>>

\* C9: once the client is constructed no step of any call changes its base
\* path or its derived paths; a call leaves the swap request it was lent as
\* it was given; a step of one call leaves the frames of the other calls
\* alone; and two finished calls of the same operation with the same
\* request and the same response have the same outcome, whatever ran
\* beside them.
C9_Step ==
    /\ client.tag = "Some" => client' = client
    /\ \A c \in Callers :
          /\ (Active(c) /\ calls'[c].pc # "idle") => swap_requests'[c] = swap_requests[c]
          /\ (calls'[c].pc # "idle" /\ calls'[c].op \in {"swap", "swap_instructions"}) =>
                swap_requests'[c] = Some(calls'[c].arg.swap_request)
          /\ calls'[c] # calls[c] => \A d \in Callers \ {c} : calls'[d] = calls[d]
    /\ \A c, d \in Callers :
          (/\ calls'[c].pc = "done" /\ calls'[d].pc = "done"
           /\ calls'[c].op = calls'[d].op
           /\ calls'[c].arg = calls'[d].arg
           /\ calls'[c].response = calls'[d].response) =>
                calls'[c].outcome = calls'[d].outcome

C9_ClientImmutable == [][C9_Step]_vars

C9_Witness ==
    /\ client.tag = "Some"
    /\ Done(1) /\ Done(2)
    /\ calls[1].op = "swap" /\ calls[2].op = "swap"
    /\ calls[1].arg = calls[2].arg
    /\ calls[1].arg.extra_args.tag = "Some"
    /\ calls[1].response = calls[2].response
    /\ Received(1)
    /\ swap_requests[1] = Some(calls[1].arg.swap_request)

\* C10: swap_instructions decodes the internal representation and converts
\* it to the public one exactly once, and only when the status check and
\* the decoding both succeeded; an error is returned as it is, without any
\* conversion; the other operations never convert.
C10_ConvertAfterDecode ==
    \A c \in Callers :
        /\ calls[c].op # "swap_instructions" => calls[c].conversions = 0
        /\ ~Done(c) => calls[c].conversions = 0
        /\ (Done(c) /\ calls[c].op = "swap_instructions") =>
              LET decoded_ok ==
                      /\ Received(c)
                      /\ InSuccessRange(StatusOf(c))
                      /\ json("SwapInstructionsResponseInternal", BodyOf(c)).tag = "Ok"
              IN  IF decoded_ok
                  THEN /\ calls[c].conversions = 1
                       /\ calls[c].status_checks = 1
                       /\ calls[c].json_decodes = 1
                       /\ OutcomeOf(c) =
                             Ok(into(json("SwapInstructionsResponseInternal", BodyOf(c)).val))
                       /\ OutcomeOf(c).val.type = "SwapInstructionsResponse"
                  ELSE /\ calls[c].conversions = 0
                       /\ OutcomeOf(c).tag = "Err"
                       /\ OutcomeOf(c).err =
                             IF ~Received(c) THEN DeserializationError("send")
                             ELSE IF ~InSuccessRange(StatusOf(c))
                             THEN RequestFailed(StatusOf(c), unwrap_or_default(BodyOf(c)))
                             ELSE DeserializationError(
                                    json("SwapInstructionsResponseInternal", BodyOf(c)).err)

C10_Witness ==
    \E c \in Callers :
        /\ Done(c) /\ calls[c].op = "swap_instructions" /\ Received(c)
        /\ StatusOf(c) = 299 /\ BodyOf(c) = Ok(BodySwapInstructions)
        /\ calls[c].conversions = 1
        /\ OutcomeOf(c) =
              Ok([type |-> "SwapInstructionsResponse", swap_instruction |-> "ix"])
====
